---- MODULE Spec2Model ----
(***************************************************************************)
(* Room/session management and message routing of chat-server.js.         *)
(*                                                                         *)
(* JavaScript strings are sequences of tokens (a token is one character,   *)
(* or one literal fragment of a server notice).  A JavaScript value that   *)
(* arrives in an event payload is a record: Str(s) or Undefined.           *)
(* Socket.IO's in-memory adapter is modelled by sockRooms (the rooms each  *)
(* socket has joined) and connected; a socket id is never a room name.     *)
(***************************************************************************)
EXTENDS Naturals, Sequences, FiniteSets

VARIABLES
    clients,    \* Map socketId -> {username, room}          (line 263)
    rooms,      \* Map room -> {users: Map, history: []}      (line 261)
    sockRooms,  \* adapter: socketId -> set of joined rooms   (socket.join / socket.leave)
    connected,  \* socketId -> the socket is open
    now,        \* the value Date.now() returns
    last,       \* the inbound event handled by the last step
    out         \* the emits of the last step, in order, each with its recipients

vars == <<clients, rooms, sockRooms, connected, now, last, out>>

(***************************************************************************)
(* Bounds of the model and constants of the program                        *)
(***************************************************************************)
MaxTime == 2            \* the clock runs 0..MaxTime (SpecText)
MaxMsgs == 1            \* chat messages stored in all rooms together (Spec)
MaxHistTime == 203      \* the clock of the history scenario (SpecHist)
MaxTextMsgs == 1        \* chat messages stored (SpecText)

NAME_MAX == 32          \* substring(0, 32)
TEXT_MAX == 1000        \* substring(0, 1000)
HISTORY_MAX == 200      \* r.history.length > 200
RECENT_MAX == 50        \* r.history.slice(-50)

Conns == {"s1", "s2"}   \* socket ids

(***************************************************************************)
(* JavaScript values and strings                                           *)
(***************************************************************************)
Str(s) == [type |-> "string", val |-> s]
Undefined == [type |-> "undefined"]

\* String(v)
ToString(v) ==
    IF v.type = "undefined" THEN <<"u", "n", "d", "e", "f", "i", "n", "e", "d">>
    ELSE v.val

IsSpace(ch) == ch \in {" ", "\t"}

RECURSIVE TrimStart(_)
TrimStart(s) ==
    IF s # <<>> /\ IsSpace(Head(s)) THEN TrimStart(Tail(s)) ELSE s

RECURSIVE TrimEnd(_)
TrimEnd(s) ==
    IF s # <<>> /\ IsSpace(s[Len(s)]) THEN TrimEnd(SubSeq(s, 1, Len(s) - 1)) ELSE s

\* s.trim()
Trim(s) == TrimEnd(TrimStart(s))

Min(a, b) == IF a < b THEN a ELSE b

\* s.substring(0, n)
Substring0(s, n) == SubSeq(s, 1, Min(Len(s), n))

\* a.slice(-n)
SliceLast(a, n) == SubSeq(a, Len(a) - Min(Len(a), n) + 1, Len(a))

Anonymous == <<"A", "n", "o", "n", "y", "m", "o", "u", "s">>
General == <<"G", "e", "n", "e", "r", "a", "l">>

\* String(username).trim().substring(0, 32) || 'Anonymous'
NormUsername(username) ==
    LET u == Substring0(Trim(ToString(username)), NAME_MAX)
    IN  IF u = <<>> THEN Anonymous ELSE u

\* String(room).trim() || 'General'
NormRoom(room) ==
    LET r == Trim(ToString(room))
    IN  IF r = <<>> THEN General ELSE r

(***************************************************************************)
(* Map (insertion-ordered): a sequence of [key, value] entries             *)
(***************************************************************************)
MapHas(m, k) == \E i \in 1..Len(m) : m[i].key = k

\* mutant: an existing key keeps its old value
MapSetKeepValue(m, k, v) ==
    IF MapHas(m, k) THEN m ELSE Append(m, [key |-> k, value |-> v])

\* mutant: an existing key is removed and entered again, at the end
MapSetReinsert(m, k, v) ==
    Append(SelectSeq(m, LAMBDA e : e.key # k), [key |-> k, value |-> v])

\* m.set(k, v): an existing key keeps its position
MapSet(m, k, v) ==
    IF MapHas(m, k)
    THEN [i \in 1..Len(m) |-> IF m[i].key = k THEN [key |-> k, value |-> v] ELSE m[i]]
    ELSE Append(m, [key |-> k, value |-> v])

\* mutant: the entry that entered last is removed, whatever its key
MapDeleteLast(m, k) == SubSeq(m, 1, Len(m) - 1)

\* m.delete(k)
MapDelete(m, k) == SelectSeq(m, LAMBDA e : e.key # k)

\* Array.from(m.values())
MapValues(m) == [i \in 1..Len(m) |-> m[i].value]

(***************************************************************************)
(* Room store                                                              *)
(***************************************************************************)
EmptyRoom == [users |-> <<>>, history |-> <<>>]

\* rooms after ensureRoom(room)
EnsureRoom(rs, room) ==
    IF room \in DOMAIN rs THEN rs
    ELSE [x \in DOMAIN rs \cup {room} |-> IF x = room THEN EmptyRoom ELSE rs[x]]

\* clients.set(id, info)
ClientsSet(cl, id, info) ==
    [x \in DOMAIN cl \cup {id} |-> IF x = id THEN info ELSE cl[x]]

\* clients.delete(id)
ClientsDelete(cl, id) == [x \in DOMAIN cl \ {id} |-> cl[x]]

(***************************************************************************)
(* Transport: who receives an emit                                         *)
(***************************************************************************)
\* io.to(room)
IoTo(sr, conn, room) == {c \in Conns : conn[c] /\ room \in sr[c]}

\* socket.to(room): the room without the sender
SocketTo(sr, conn, sender, room) == IoTo(sr, conn, room) \ {sender}

\* io.to(socketId): the socket's own room
IoToSocket(conn, sid) == {c \in Conns : conn[c] /\ c = sid}

Emit(event, data, to) == [event |-> event, data |-> data, to |-> to]

Event(op, c, arg, issued) == [op |-> op, conn |-> c, arg |-> arg, issued |-> issued]


NoSocket == "null"

NoPayload == [none |-> TRUE]

(***************************************************************************)
(* Inputs of the model                                                     *)
(***************************************************************************)
Alice == <<"a", "l", "i", "c", "e">>
Bob == <<"b", "o", "b">>
Carol == <<"c", "a", "r", "o", "l">>
Tech == <<"T", "e", "c", "h">>
Hi == <<"h", "i">>
Secret == <<"s", "e", "c", "r", "e", "t">>
LongText == [i \in 1..(TEXT_MAX + 1) |-> IF i > TEXT_MAX THEN "z" ELSE "x"]

UserInputs == {Str(Alice), Str(<<" ">> \o Bob \o <<" ">>)}
RoomInputs == {Str(General), Str(Tech)}
TextInputs == {Str(Hi), Str(LongText)}
ToInputs == {Str(Alice), Str(Bob), Str(Carol)}
MsgInputs == {Str(Secret)}

(***************************************************************************)
(* Initial state: both stores empty, every socket open and in no room      *)
(***************************************************************************)
Init ==
    /\ clients = [x \in {} |-> x]
    /\ rooms = [x \in {} |-> x]
    /\ sockRooms = [c \in Conns |-> {}]
    /\ connected = [c \in Conns |-> TRUE]
    /\ now = 0
    /\ last = Event("none", "-", <<>>, 0)
    /\ out = <<>>

(***************************************************************************)
(* socket.on('joinRoom')                                                   *)
(***************************************************************************)
\* mutant: slice(0, 50), the oldest messages
RecentHistoryOldest(history) == Substring0(history, RECENT_MAX)

\* r.history.slice(-50)
RecentHistory(history) == SliceLast(history, RECENT_MAX)

JoinRoom(c, username0, room0) ==
    LET username == NormUsername(username0)
        room == NormRoom(room0)
        sr == [sockRooms EXCEPT ![c] = @ \cup {room}]
        rs0 == EnsureRoom(rooms, room)
        rs == [rs0 EXCEPT ![room].users = MapSet(@, c, username)]
        r == rs[room]
        history == RecentHistory(r.history)
    IN  /\ clients' = ClientsSet(clients, c, [username |-> username, room |-> room])
        /\ sockRooms' = sr
        /\ rooms' = rs
        /\ out' = << Emit("system", [text |-> username \o <<" has joined the room">>],
                          SocketTo(sr, connected, c, room)),
                     Emit("users", [users |-> MapValues(r.users)],
                          IoTo(sr, connected, room)),
                     Emit("joined", [room |-> room, username |-> username,
                                     users |-> MapValues(r.users), history |-> history],
                          {c}) >>
        /\ last' = Event("joinRoom", c, <<username0, room0>>, now)
        /\ UNCHANGED <<connected, now>>

(***************************************************************************)
(* socket.on('leaveRoom')                                                  *)
(***************************************************************************)
\* mutant: the 'left' acknowledgement is sent before the session check
LeaveNoSessionAck(c) ==
    /\ out' = << Emit("left", [room |-> General, username |-> Anonymous], {c}) >>
    /\ UNCHANGED <<clients, rooms, sockRooms>>

\* if (!info) return;
LeaveNoSession(c) ==
    /\ out' = <<>>
    /\ UNCHANGED <<clients, rooms, sockRooms>>

LeaveRoom(c) ==
    /\ last' = Event("leaveRoom", c, <<>>, now)
    /\ UNCHANGED <<connected, now>>
    /\ IF c \notin DOMAIN clients
       THEN LeaveNoSession(c)
       ELSE LET username == clients[c].username
                room == clients[c].room
            IN  /\ IF room \in DOMAIN rooms
                   THEN LET rs == [rooms EXCEPT ![room].users = MapDelete(@, c)]
                            sr == [sockRooms EXCEPT ![c] = @ \ {room}]
                        IN  /\ rooms' = rs
                            /\ sockRooms' = sr
                            /\ out' = << Emit("left", [room |-> room, username |-> username], {c}),
                                         Emit("system", [text |-> username \o <<" has left the room">>],
                                              SocketTo(sr, connected, c, room)),
                                         Emit("users", [users |-> MapValues(rs[room].users)],
                                              IoTo(sr, connected, room)) >>
                   ELSE /\ out' = <<>>
                        /\ UNCHANGED <<rooms, sockRooms>>
                /\ clients' = ClientsDelete(clients, c)

(***************************************************************************)
(* socket.on('chatMessage')                                                *)
(***************************************************************************)
\* mutant: the text is stored as received
BuildMsgUntruncated(username, text, ts) ==
    [username |-> username, text |-> ToString(text), ts |-> ts]

\* { username, text: String(text).substring(0, 1000), ts }
BuildMsg(username, text, ts) ==
    [username |-> username, text |-> Substring0(ToString(text), TEXT_MAX), ts |-> ts]

\* mutant: a lost update, the new message takes the place of the last one
PushLimitedLost(history, msg) ==
    IF history = <<>> THEN <<msg>>
    ELSE SubSeq(history, 1, Len(history) - 1) \o <<msg>>

\* mutant: unshift instead of push
PushLimitedFront(history, msg) ==
    LET h == <<msg>> \o history
    IN  IF Len(h) > HISTORY_MAX THEN Tail(h) ELSE h

\* mutant: the limit is tested one too late
PushLimitedLate(history, msg) ==
    LET h == Append(history, msg)
    IN  IF Len(h) > HISTORY_MAX + 1 THEN Tail(h) ELSE h

\* r.history.push(msg); if (r.history.length > 200) r.history.shift()
PushLimited(history, msg) ==
    LET h == Append(history, msg)
    IN  IF Len(h) > HISTORY_MAX THEN Tail(h) ELSE h

\* issued: when the client sent the event (not later than its handling)
ChatMessage(c, text, issued) ==
    /\ last' = Event("chatMessage", c, text, issued)
    /\ UNCHANGED <<connected, now, clients, sockRooms>>
    /\ IF c \notin DOMAIN clients
       THEN /\ out' = << Emit("system", [text |-> <<"Please join a room first">>], {c}) >>
            /\ UNCHANGED rooms
       ELSE LET username == clients[c].username
                room == clients[c].room
                msg == BuildMsg(username, text, now)
                rs0 == EnsureRoom(rooms, room)
            IN  /\ rooms' = [rs0 EXCEPT ![room].history = PushLimited(@, msg)]
                /\ out' = << Emit("message", msg, IoTo(sockRooms, connected, room)) >>

(***************************************************************************)
(* socket.on('typing') / socket.on('stopTyping')                           *)
(***************************************************************************)
\* mutant: socket.to(room), which leaves the sender out
TypingNoSelf(c) ==
    /\ last' = Event("typing", c, <<>>, now)
    /\ UNCHANGED <<connected, now, clients, rooms, sockRooms>>
    /\ out' = IF c \notin DOMAIN clients THEN <<>>
              ELSE << Emit("typing", [username |-> clients[c].username],
                           SocketTo(sockRooms, connected, c, clients[c].room)) >>

Typing(c) ==
    /\ last' = Event("typing", c, <<>>, now)
    /\ UNCHANGED <<connected, now, clients, rooms, sockRooms>>
    /\ out' = IF c \notin DOMAIN clients THEN <<>>
              ELSE << Emit("typing", [username |-> clients[c].username],
                           IoTo(sockRooms, connected, clients[c].room)) >>

StopTyping(c) ==
    /\ last' = Event("stopTyping", c, <<>>, now)
    /\ UNCHANGED <<connected, now, clients, rooms, sockRooms>>
    /\ out' = IF c \notin DOMAIN clients THEN <<>>
              ELSE << Emit("stopTyping", NoPayload,
                           IoTo(sockRooms, connected, clients[c].room)) >>

(***************************************************************************)
(* socket.on('privateMessage')                                             *)
(***************************************************************************)
\* uname === to
StrictEq(uname, to) == to.type = "string" /\ to.val = uname

\* mutant: without a match the scan keeps the first entry
FindTargetLoose(users, to) ==
    LET hits == {i \in 1..Len(users) : StrictEq(users[i].value, to)}
    IN  IF users = <<>> THEN NoSocket
        ELSE IF hits = {} THEN users[1].key
        ELSE users[CHOOSE i \in hits : \A j \in hits : i <= j].key

\* for (const [sid, uname] of r.users.entries()) if (uname === to) { ...; break; }
FindTarget(users, to) ==
    LET hits == {i \in 1..Len(users) : StrictEq(users[i].value, to)}
    IN  IF hits = {} THEN NoSocket
        ELSE users[CHOOSE i \in hits : \A j \in hits : i <= j].key

PrivateMessage(c, to, message) ==
    /\ last' = Event("privateMessage", c, <<to, message>>, now)
    /\ UNCHANGED <<connected, now, clients, rooms, sockRooms>>
    /\ IF c \notin DOMAIN clients
       THEN out' = << Emit("system", [text |-> <<"Join a room first">>], {c}) >>
       ELSE LET from == clients[c].username
                room == clients[c].room
            IN  IF room \notin DOMAIN rooms
                THEN out' = << Emit("system", [text |-> <<"Room not found">>], {c}) >>
                ELSE LET targetSocketId == FindTarget(rooms[room].users, to)
                     IN  IF targetSocketId = NoSocket
                         THEN out' = << Emit("system",
                                             [text |-> <<"User not found in room: ">> \o ToString(to)],
                                             {c}) >>
                         ELSE out' = << Emit("privateMessage",
                                             [from |-> from, message |-> message, ts |-> now],
                                             IoToSocket(connected, targetSocketId)),
                                        Emit("system",
                                             [text |-> <<"Private message sent to ">> \o ToString(to)],
                                             {c}) >>

(***************************************************************************)
(* socket.on('disconnect'): the socket has left every adapter room         *)
(***************************************************************************)
Disconnect(c) ==
    LET conn == [connected EXCEPT ![c] = FALSE]
        sr == [sockRooms EXCEPT ![c] = {}]
    IN  /\ last' = Event("disconnect", c, <<>>, now)
        /\ connected' = conn
        /\ sockRooms' = sr
        /\ UNCHANGED now
        /\ IF c \in DOMAIN clients
           THEN LET username == clients[c].username
                    room == clients[c].room
                IN  /\ IF room \in DOMAIN rooms
                       THEN LET rs == [rooms EXCEPT ![room].users = MapDelete(@, c)]
                            IN  /\ rooms' = rs
                                /\ out' = << Emit("system", [text |-> username \o <<" disconnected">>],
                                                  SocketTo(sr, conn, c, room)),
                                             Emit("users", [users |-> MapValues(rs[room].users)],
                                                  IoTo(sr, conn, room)) >>
                       ELSE /\ out' = <<>>
                            /\ UNCHANGED rooms
                    /\ clients' = ClientsDelete(clients, c)
           ELSE /\ out' = <<>>
                /\ UNCHANGED <<clients, rooms>>

(***************************************************************************)
(* The clock                                                               *)
(***************************************************************************)
Tick ==
    /\ now' = now + 1
    /\ last' = Event("tick", "-", <<>>, now + 1)
    /\ out' = <<>>
    /\ UNCHANGED <<clients, rooms, sockRooms, connected>>

(***************************************************************************)
(* Spec: membership and routing.  Any events from any open socket; the     *)
(* clock stands still.                                                     *)
(***************************************************************************)
RECURSIVE SumLen(_, _)
SumLen(rs, names) ==
    IF names = {} THEN 0
    ELSE LET n == CHOOSE x \in names : TRUE
         IN  Len(rs[n].history) + SumLen(rs, names \ {n})

Stored == SumLen(rooms, DOMAIN rooms)

UserInputsOf(c) == IF c = "s1" THEN {Str(Alice)} ELSE UserInputs

Next ==
    \/ \E c \in Conns, r \in RoomInputs : \E u \in UserInputsOf(c) :
          connected[c] /\ JoinRoom(c, u, r)
    \/ \E c \in Conns : connected[c] /\ LeaveRoom(c)
    \/ \E c \in Conns : connected[c] /\ Stored < MaxMsgs /\ ChatMessage(c, Str(Hi), now)
    \/ \E c \in Conns : connected[c] /\ Typing(c)
    \/ \E c \in Conns : connected[c] /\ StopTyping(c)
    \/ \E c \in Conns, to \in ToInputs, m \in MsgInputs : connected[c] /\ PrivateMessage(c, to, m)
    \/ \E c \in Conns : connected[c] /\ Disconnect(c)

Spec == Init /\ [][Next]_vars


(***************************************************************************)
(* SpecJoin: joinRoom events only                                          *)
(***************************************************************************)
NextJoin ==
    \E c \in Conns, r \in RoomInputs : \E u \in UserInputsOf(c) :
        connected[c] /\ JoinRoom(c, u, r)

SpecJoin == Init /\ [][NextJoin]_vars

(***************************************************************************)
(* SpecHist: history retention.  Sockets join General and chat; the clock  *)
(* advances between two messages, so every stored message is distinct.     *)
(***************************************************************************)
LastTs(h) == IF h = <<>> THEN 0 ELSE h[Len(h)].ts

GeneralHistory == IF General \in DOMAIN rooms THEN rooms[General].history ELSE <<>>

Stamped == GeneralHistory # <<>> /\ LastTs(GeneralHistory) = now

NextHist ==
    \/ \E c \in Conns : connected[c] /\ JoinRoom(c, Str(Alice), Str(General))
    \/ connected["s1"] /\ "s1" \in DOMAIN clients /\ ~Stamped /\ ChatMessage("s1", Str(Hi), now)
    \/ now < MaxHistTime /\ Stamped /\ Tick

SpecHist == Init /\ [][NextHist]_vars

(***************************************************************************)
(* SpecText: message construction.  Short and over-long texts, a running   *)
(* clock, events issued at or before the time they are handled.            *)
(***************************************************************************)
NextText ==
    \/ \E c \in Conns, u \in UserInputs : connected[c] /\ JoinRoom(c, u, Str(General))
    \/ \E c \in Conns : connected[c] /\ LeaveRoom(c)
    \/ \E c \in Conns, text \in TextInputs, t \in 0..now :
          connected[c] /\ Stored < MaxTextMsgs /\ ChatMessage(c, text, t)
    \/ now < MaxTime /\ Tick

SpecText == Init /\ [][NextText]_vars


(***************************************************************************)
(* Notions the claims use                                                  *)
(***************************************************************************)
\* the connections whose session has room R
SessionsIn(cl, R) == {c \in DOMAIN cl : cl[c].room = R}

RosterOf(rs, R) == IF R \in DOMAIN rs THEN rs[R].users ELSE <<>>

HistoryOf(rs, R) == IF R \in DOMAIN rs THEN rs[R].history ELSE <<>>

InSomeRoster(rs, c) == \E R \in DOMAIN rs : MapHas(rs[R].users, c)

\* names is exactly the display names of the sessions in R, one entry each
NamesOfSessions(names, cl, R) ==
    /\ Len(names) = Cardinality(SessionsIn(cl, R))
    /\ \A c \in SessionsIn(cl, R) : \E i \in 1..Len(names) : names[i] = cl[c].username
    /\ \A i \in 1..Len(names) : \E c \in SessionsIn(cl, R) : names[i] = cl[c].username

Receives(c) == \E i \in 1..Len(out) : c \in out[i].to

StoresUnchanged == UNCHANGED <<clients, rooms, sockRooms, connected>>

(***************************************************************************)
(* C1: in every reachable state, for every room R, the number of roster    *)
(* entries of R equals the number of connections whose session has         *)
(* room = R.                                                               *)
(***************************************************************************)
C1_RosterSizeEqualsSessions ==
    \A R \in DOMAIN rooms : Len(rooms[R].users) = Cardinality(SessionsIn(clients, R))

(***************************************************************************)
(* C2: under joinRoom events only, the 'users' snapshot emitted by a join  *)
(* to room R carries exactly the display names of the connections whose    *)
(* session has room = R.                                                   *)
(***************************************************************************)
C2_UsersSnapshotEqualsSessions ==
    last.op = "joinRoom" =>
        /\ out[2].event = "users"
        /\ NamesOfSessions(out[2].data.users, clients, clients[last.conn].room)

(***************************************************************************)
(* C3: a step that handles disconnect for c leaves c with no session and   *)
(* in the roster of no room; c receives no event; if c had a session in R, *)
(* the remaining members of R receive '<username> disconnected' and a      *)
(* 'users' snapshot without c's entry.                                     *)
(***************************************************************************)
C3_DisconnectStep(c) ==
    /\ c \notin DOMAIN clients'
    /\ ~InSomeRoster(rooms', c)
    /\ ~Receives(c)'
    /\ c \in DOMAIN clients =>
          LET R == clients[c].room
              rest == SessionsIn(clients', R)
          IN  /\ Len(out') = 2
              /\ out'[1].event = "system"
              /\ out'[1].data.text = clients[c].username \o <<" disconnected">>
              /\ rest \subseteq out'[1].to
              /\ out'[2].event = "users"
              /\ out'[2].data.users = MapValues(MapDelete(RosterOf(rooms, R), c))
              /\ rest \subseteq out'[2].to

C3_DisconnectRemovesEverywhere ==
    [][\A c \in Conns : (last'.op = "disconnect" /\ last'.conn = c) => C3_DisconnectStep(c)]_vars

(***************************************************************************)
(* C4: the 'message' event of a chatMessage from a connection with a       *)
(* session in R is delivered to exactly the connections whose session has  *)
(* room = R.                                                               *)
(***************************************************************************)
C4_MessageToSessionsOnly ==
    (last.op = "chatMessage" /\ last.conn \in DOMAIN clients) =>
        /\ Len(out) = 1
        /\ out[1].event = "message"
        /\ out[1].to = SessionsIn(clients, clients[last.conn].room)

(***************************************************************************)
(* C5: whenever a privateMessage succeeds (the sender gets 'Private        *)
(* message sent to <name>'), exactly one open connection receives the      *)
(* 'privateMessage' event, with from = the sender's display name and the   *)
(* message as sent, and no history changes.                                *)
(***************************************************************************)
PmSucceeded(o) == Len(o) = 2 /\ o[1].event = "privateMessage"

C5_PrivateStep(c) ==
    /\ Cardinality(out'[1].to) = 1
    /\ \A d \in out'[1].to : connected[d]
    /\ out'[1].data.from = clients[c].username
    /\ out'[1].data.message = last'.arg[2]
    /\ out'[2].event = "system"
    /\ out'[2].to = {c}
    /\ out'[2].data.text = <<"Private message sent to ">> \o ToString(last'.arg[1])
    /\ DOMAIN rooms' = DOMAIN rooms
    /\ \A R \in DOMAIN rooms : rooms'[R].history = rooms[R].history

C5_PrivateReachesExactlyOne ==
    [][\A c \in Conns :
          (last'.op = "privateMessage" /\ last'.conn = c /\ PmSucceeded(out'))
              => C5_PrivateStep(c)]_vars


(***************************************************************************)
(* C6: protocol-violation errors mutate nothing.  chatMessage or           *)
(* privateMessage from a connection with no session, and privateMessage    *)
(* whose target matches no roster entry of the sender's room, leave the    *)
(* Registry and the Room Store unchanged and emit exactly one system       *)
(* notice, to the originating connection only.                             *)
(***************************************************************************)
Notice(text, c) == << Emit("system", [text |-> text], {c}) >>

NoMatch(users, to) == \A i \in 1..Len(users) : ~StrictEq(users[i].value, to)

C6_ErrorStep(c) ==
    /\ (last'.op = "chatMessage" /\ c \notin DOMAIN clients) =>
          StoresUnchanged /\ out' = Notice(<<"Please join a room first">>, c)
    /\ (last'.op = "privateMessage" /\ c \notin DOMAIN clients) =>
          StoresUnchanged /\ out' = Notice(<<"Join a room first">>, c)
    /\ (/\ last'.op = "privateMessage"
        /\ c \in DOMAIN clients
        /\ NoMatch(RosterOf(rooms, clients[c].room), last'.arg[1])) =>
          /\ StoresUnchanged
          /\ out' = Notice(<<"User not found in room: ">> \o ToString(last'.arg[1]), c)

C6_ErrorsMutateNothing ==
    [][\A c \in Conns : last'.conn = c => C6_ErrorStep(c)]_vars

\* a private message to carol, who is in no roster, from a member of a room of two
C6_Witness ==
    /\ last.op = "privateMessage"
    /\ last.conn \in DOMAIN clients
    /\ last.arg[1] = Str(Carol)
    /\ Len(RosterOf(rooms, clients[last.conn].room)) = 2
    /\ out = Notice(<<"User not found in room: ">> \o Carol, last.conn)

(***************************************************************************)
(* C7: every room's history holds at most 200 messages, and a chatMessage  *)
(* accepted when the history holds 200 removes exactly the oldest and      *)
(* appends the new message as the last, the other 199 keeping their order. *)
(***************************************************************************)
C7_EvictStep(c) ==
    LET R == clients[c].room
        H == HistoryOf(rooms, R)
        H2 == HistoryOf(rooms', R)
    IN  Len(H) = HISTORY_MAX =>
          /\ Len(H2) = HISTORY_MAX
          /\ \A k \in 1..(HISTORY_MAX - 1) : H2[k] = H[k + 1]
          /\ H2[HISTORY_MAX] = out'[1].data
          /\ H2[HISTORY_MAX].username = clients[c].username
          /\ H2[HISTORY_MAX].ts = now

C7_HistoryBounded ==
    /\ [](\A R \in DOMAIN rooms : Len(rooms[R].history) <= HISTORY_MAX)
    /\ [][\A c \in Conns :
            (last'.op = "chatMessage" /\ last'.conn = c /\ c \in DOMAIN clients)
                => C7_EvictStep(c)]_vars

\* a message was appended to a full history: the message stamped 0 is gone
C7_Witness ==
    /\ last.op = "chatMessage"
    /\ Len(GeneralHistory) = HISTORY_MAX
    /\ GeneralHistory[1].ts >= 2
    /\ GeneralHistory[HISTORY_MAX].ts = now

(***************************************************************************)
(* C8: the history of the 'joined' event has length min(50, length of the  *)
(* room's history) and is the last that-many messages of the room's        *)
(* history, oldest first.                                                  *)
(***************************************************************************)
C8_JoinedCarriesRecentHistory ==
    last.op = "joinRoom" =>
        LET H == HistoryOf(rooms, clients[last.conn].room)
            sent == out[3].data.history
            n == IF Len(H) < RECENT_MAX THEN Len(H) ELSE RECENT_MAX
        IN  /\ out[3].event = "joined"
            /\ Len(sent) = n
            /\ \A k \in 1..n : sent[k] = H[Len(H) - n + k]

\* a join to a room whose history is full
C8_Witness ==
    /\ last.op = "joinRoom"
    /\ Len(GeneralHistory) = HISTORY_MAX
    /\ Len(out[3].data.history) = RECENT_MAX
    /\ out[3].data.history[1].ts > GeneralHistory[1].ts

(***************************************************************************)
(* C9: right after chatMessage(text) from a connection with a session      *)
(* (username u, room R), the last message of R's history has author u, the *)
(* first 1000 characters of text and a timestamp not earlier than the time *)
(* the event was issued, and the 'message' event carries that message.     *)
(***************************************************************************)
C9_MessageRoundTrip ==
    (last.op = "chatMessage" /\ last.conn \in DOMAIN clients) =>
        LET H == HistoryOf(rooms, clients[last.conn].room)
            m == H[Len(H)]
            text == last.arg.val
            n == IF Len(text) < TEXT_MAX THEN Len(text) ELSE TEXT_MAX
        IN  /\ H # <<>>
            /\ m.username = clients[last.conn].username
            /\ Len(m.text) = n
            /\ \A k \in 1..n : m.text[k] = text[k]
            /\ m.ts >= last.issued
            /\ Len(out) = 1
            /\ out[1].event = "message"
            /\ out[1].data = m

\* an over-long text, issued before the clock advanced
C9_Witness ==
    /\ last.op = "chatMessage"
    /\ last.conn \in DOMAIN clients
    /\ Len(last.arg.val) > TEXT_MAX
    /\ last.issued < now
    /\ Len(out[1].data.text) = TEXT_MAX

(***************************************************************************)
(* C10: leaveRoom from a connection with no session emits nothing and      *)
(* changes neither the Registry nor any roster or history, at every        *)
(* repetition.                                                             *)
(***************************************************************************)
C10_LeaveWithoutSessionIsNoOp ==
    [][\A c \in Conns :
          (last'.op = "leaveRoom" /\ last'.conn = c /\ c \notin DOMAIN clients)
              => (out' = <<>> /\ StoresUnchanged)]_vars

\* leaveRoom from a socket that never joined, while another socket is joined
C10_Witness ==
    /\ last.op = "leaveRoom"
    /\ out = <<>>
    /\ ~InSomeRoster(rooms, last.conn)
    /\ DOMAIN clients # {}

(***************************************************************************)
(* SpecNorm: normalisation of the joinRoom payload.  Usernames and rooms   *)
(* that are empty, blank, absent or over-long; joins and leaves only.      *)
(***************************************************************************)
LongName == [i \in 1..(NAME_MAX + 1) |-> IF i > NAME_MAX THEN "z" ELSE "n"]
Blank == <<" ", "\t">>

NormUserInputs == {Str(<<>>), Str(LongName)}
NormRoomInputs == {Str(Tech), Str(<<>>), Str(Blank), Undefined}

NextNorm ==
    \/ \E u \in NormUserInputs, r \in NormRoomInputs :
          connected["s1"] /\ JoinRoom("s1", u, r)
    \/ \E r \in {Str(Blank), Undefined} :
          connected["s2"] /\ JoinRoom("s2", Undefined, r)
    \/ \E c \in Conns : connected[c] /\ LeaveRoom(c)

SpecNorm == Init /\ [][NextNorm]_vars

(***************************************************************************)
(* C11: a joinRoom whose room field is empty, whitespace-only or absent    *)
(* gives the connection a session whose room is 'General' and adds it to   *)
(* the roster of 'General' and of no other room.                           *)
(***************************************************************************)
\* the room field is empty, whitespace-only or absent
NoRoomGiven(room) ==
    \/ room.type = "undefined"
    \/ room.type = "string" /\ \A i \in 1..Len(room.val) : IsSpace(room.val[i])

C11_JoinStep(c) ==
    /\ c \in DOMAIN clients'
    /\ clients'[c].room = General
    /\ MapHas(RosterOf(rooms', General), c)
    /\ \A R \in DOMAIN rooms' : R # General => RosterOf(rooms', R) = RosterOf(rooms, R)

C11_NoRoomMeansGeneral ==
    [][\A c \in Conns :
          (last'.op = "joinRoom" /\ last'.conn = c /\ NoRoomGiven(last'.arg[2]))
              => C11_JoinStep(c)]_vars

(***************************************************************************)
(* C12: on joinRoom by c into room R, c receives 'joined' whose users list *)
(* is R's roster after c was added (names in insertion order, c's own      *)
(* included); every other member of R receives '<username> has joined the  *)
(* room' and c does not; every member of R, c included, receives a 'users' *)
(* event with that same roster.                                            *)
(***************************************************************************)
\* the open connections that have an entry in R's roster
OpenMembers(rs, R) == {d \in Conns : connected[d] /\ MapHas(RosterOf(rs, R), d)}

\* the names of the roster old once c has joined as u: c keeps its place, or comes last
NamesAfterJoin(old, c, u) ==
    IF \E i \in 1..Len(old) : old[i].key = c
    THEN [i \in 1..Len(old) |-> IF old[i].key = c THEN u ELSE old[i].value]
    ELSE [i \in 1..(Len(old) + 1) |-> IF i = Len(old) + 1 THEN u ELSE old[i].value]

C12_JoinStep(c) ==
    LET R == clients'[c].room
        u == clients'[c].username
        names == NamesAfterJoin(RosterOf(rooms, R), c, u)
        others == (OpenMembers(rooms', R) \cup SessionsIn(clients', R)) \ {c}
    IN  /\ Len(out') = 3
        /\ out'[1].event = "system"
        /\ out'[1].data.text = u \o <<" has joined the room">>
        /\ others \subseteq out'[1].to
        /\ c \notin out'[1].to
        /\ out'[2].event = "users"
        /\ out'[2].data.users = names
        /\ (others \cup {c}) \subseteq out'[2].to
        /\ out'[3].event = "joined"
        /\ out'[3].to = {c}
        /\ out'[3].data.room = R
        /\ out'[3].data.username = u
        /\ out'[3].data.users = names
        /\ \E i \in 1..Len(names) : names[i] = u

C12_JoinNotifies ==
    [][\A c \in Conns : (last'.op = "joinRoom" /\ last'.conn = c) => C12_JoinStep(c)]_vars

\* bob joins a room in which alice already is: alice gets the notice and the roster
C12_Witness ==
    /\ last.op = "joinRoom"
    /\ last.conn = "s2"
    /\ out[3].data.users = <<Alice, Bob>>
    /\ out[1].to = {"s1"}
    /\ out[2].to = {"s1", "s2"}

(***************************************************************************)
(* C13: after leaveRoom by c with session (u, R), c has no session and no  *)
(* entry in R's roster; c receives exactly 'left' {R, u}; the remaining    *)
(* members of R receive '<u> has left the room' and a 'users' snapshot     *)
(* without c's entry, neither of which reaches c; and a later joinRoom by  *)
(* c makes c a member again.                                               *)
(***************************************************************************)
NamesWithout(old, c) ==
    LET keep == SelectSeq(old, LAMBDA e : e.key # c)
    IN  [i \in 1..Len(keep) |-> keep[i].value]

C13_LeaveStep(c) ==
    LET R == clients[c].room
        u == clients[c].username
        rest == OpenMembers(rooms', R) \cup SessionsIn(clients', R)
    IN  /\ c \notin DOMAIN clients'
        /\ ~MapHas(RosterOf(rooms', R), c)
        /\ Len(out') = 3
        /\ out'[1] = Emit("left", [room |-> R, username |-> u], {c})
        /\ out'[2].event = "system"
        /\ out'[2].data.text = u \o <<" has left the room">>
        /\ rest \subseteq out'[2].to
        /\ c \notin out'[2].to
        /\ out'[3].event = "users"
        /\ out'[3].data.users = NamesWithout(RosterOf(rooms, R), c)
        /\ rest \subseteq out'[3].to
        /\ c \notin out'[3].to

C13_RejoinStep(c) ==
    /\ c \in DOMAIN clients'
    /\ MapHas(RosterOf(rooms', clients'[c].room), c)
    /\ out'[3].event = "joined"
    /\ out'[3].to = {c}

C13_LeaveThenRejoin ==
    [][\A c \in Conns :
          /\ (last'.op = "leaveRoom" /\ last'.conn = c /\ c \in DOMAIN clients)
                => C13_LeaveStep(c)
          /\ (last'.op = "joinRoom" /\ last'.conn = c /\ c \notin DOMAIN clients)
                => C13_RejoinStep(c)]_vars

\* s1 has left a room in which s2 stays: s2 alone gets the notice and the roster
C13_Witness ==
    /\ last.op = "leaveRoom"
    /\ last.conn = "s1"
    /\ Len(out) = 3
    /\ out[1].to = {"s1"}
    /\ out[2].to = {"s2"}
    /\ out[3].to = {"s2"}
    /\ Len(out[3].data.users) = 1

(***************************************************************************)
(* C14: in every reachable state each connection has an entry in the       *)
(* roster of at most one room.                                             *)
(***************************************************************************)
RoomsHolding(rs, c) == {R \in DOMAIN rs : MapHas(rs[R].users, c)}

C14_AtMostOneRoster ==
    \A c \in Conns : Cardinality(RoomsHolding(rooms, c)) <= 1

(***************************************************************************)
(* C15: a privateMessage is delivered only to a connection whose session   *)
(* has the sender's room and the requested display name; when no           *)
(* connection has such a session, the sender receives 'User not found in   *)
(* room: <name>' and nothing is delivered.                                 *)
(***************************************************************************)
\* the connections joined to room R under the name that to requests
JoinedAs(cl, R, to) ==
    {d \in DOMAIN cl : cl[d].room = R /\ StrictEq(cl[d].username, to)}

C15_PrivateOnlyToRoomMates ==
    (last.op = "privateMessage" /\ last.conn \in DOMAIN clients) =>
        LET c == last.conn
            to == last.arg[1]
            mates == JoinedAs(clients, clients[c].room, to)
        IN  /\ \A i \in 1..Len(out) :
                  out[i].event = "privateMessage" => out[i].to \subseteq mates
            /\ mates = {} =>
                  out = Notice(<<"User not found in room: ">> \o ToString(to), c)

(***************************************************************************)
(* C16: when several entries of the sender's room roster carry the target  *)
(* name, privateMessage delivers to exactly one connection: the one whose  *)
(* entry was inserted earliest among the matches.                          *)
(***************************************************************************)
Matches(users, to) == {i \in 1..Len(users) : StrictEq(users[i].value, to)}

EarliestMatch(users, to) ==
    users[CHOOSE i \in Matches(users, to) : \A j \in Matches(users, to) : i <= j].key

C16_EarliestMatchReceives ==
    (last.op = "privateMessage" /\ last.conn \in DOMAIN clients) =>
        LET users == RosterOf(rooms, clients[last.conn].room)
            to == last.arg[1]
        IN  Cardinality(Matches(users, to)) >= 2 =>
              /\ Len(out) = 2
              /\ out[1].event = "privateMessage"
              /\ out[1].to = {EarliestMatch(users, to)}

(***************************************************************************)
(* SpecFrame: what each handler leaves alone.  Socket s1 sends every kind  *)
(* of event while General fills past its limit; the clock advances between *)
(* two stored messages.                                                    *)
(***************************************************************************)
NextFrame ==
    \/ connected["s1"] /\ JoinRoom("s1", Str(Alice), Str(General))
    \/ connected["s1"] /\ LeaveRoom("s1")
    \/ connected["s1"] /\ ~Stamped /\ ChatMessage("s1", Str(Hi), now)
    \/ connected["s1"] /\ Typing("s1")
    \/ connected["s1"] /\ StopTyping("s1")
    \/ connected["s1"] /\ PrivateMessage("s1", Str(Alice), Str(Secret))
    \/ connected["s1"] /\ Disconnect("s1")
    \/ now < MaxHistTime /\ Stamped /\ Tick

SpecFrame == Init /\ [][NextFrame]_vars

(***************************************************************************)
(* C17: a step changes a room's history only by appending one message at   *)
(* the end (removing the head when the length would exceed 200); only      *)
(* chatMessage from a connection with a session changes a history, and     *)
(* only that of the session's room.  joinRoom, leaveRoom, typing,          *)
(* stopTyping, privateMessage and disconnect change no history.            *)
(***************************************************************************)
Appended(H, m) == (IF Len(H) < HISTORY_MAX THEN H ELSE Tail(H)) \o <<m>>

C17_Step ==
    /\ DOMAIN rooms \subseteq DOMAIN rooms'
    /\ \A R \in DOMAIN rooms' :
          \/ HistoryOf(rooms', R) = HistoryOf(rooms, R)
          \/ /\ last'.op = "chatMessage"
             /\ last'.conn \in DOMAIN clients
             /\ clients[last'.conn].room = R
             /\ HistoryOf(rooms', R) = Appended(HistoryOf(rooms, R), out'[1].data)
    /\ last'.op \in {"joinRoom", "leaveRoom", "typing", "stopTyping",
                     "privateMessage", "disconnect"} =>
          \A R \in DOMAIN rooms' : HistoryOf(rooms', R) = HistoryOf(rooms, R)

C17_HistoryAppendOnly == [][C17_Step]_vars

\* a private message handled after the oldest message was evicted
C17_Witness ==
    /\ last.op = "privateMessage"
    /\ Len(out) = 2
    /\ Len(GeneralHistory) = HISTORY_MAX
    /\ GeneralHistory[1].ts >= 1

(***************************************************************************)
(* C18: typing and stopTyping never change the Registry or the Room Store. *)
(* Without a session they emit nothing; with a session in R they emit one  *)
(* notice to the members of R, the sender included, and the typing notice  *)
(* names the sender.                                                       *)
(***************************************************************************)
C18_TypingStep(c) ==
    /\ StoresUnchanged
    /\ c \notin DOMAIN clients => out' = <<>>
    /\ c \in DOMAIN clients =>
          /\ Len(out') = 1
          /\ out'[1].event = last'.op
          /\ SessionsIn(clients, clients[c].room) \subseteq out'[1].to
          /\ c \in out'[1].to
          /\ last'.op = "typing" => out'[1].data = [username |-> clients[c].username]

C18_TypingIsStateless ==
    [][\A c \in Conns :
          (last'.op \in {"typing", "stopTyping"} /\ last'.conn = c) => C18_TypingStep(c)]_vars

\* bob types in a room he shares with alice: both get the notice
C18_Witness ==
    /\ last.op = "typing"
    /\ last.conn = "s2"
    /\ Len(out) = 1
    /\ out[1].data = [username |-> Bob]
    /\ out[1].to = {"s1", "s2"}
    /\ "s1" \in DOMAIN clients
    /\ clients["s1"].room = clients["s2"].room

(***************************************************************************)
(* SpecOrder: chat messages from two sockets joined to the same room, in   *)
(* any order, while the clock runs.  A handler runs to completion before   *)
(* the next event is taken, so each handler is one step.                   *)
(***************************************************************************)
MaxOrderMsgs == 3       \* chat messages stored (SpecOrder)

NextOrder ==
    \/ \E c \in Conns : \E u \in UserInputsOf(c) :
          connected[c] /\ c \notin DOMAIN clients /\ JoinRoom(c, u, Str(General))
    \/ \E c \in Conns :
          connected[c] /\ c \in DOMAIN clients /\ Stored < MaxOrderMsgs
              /\ ChatMessage(c, Str(Hi), now)
    \/ now < MaxTime /\ Tick

SpecOrder == Init /\ [][NextOrder]_vars

(***************************************************************************)
(* C19: under any interleaving of chatMessage events from connections      *)
(* joined to the same room no append is lost or reordered: each accepted   *)
(* message is appended exactly once, the 'message' events go out in the    *)
(* order of the messages in the history, and timestamps never decrease.    *)
(***************************************************************************)
NonDecreasing(H) == \A i \in 1..Len(H) : \A j \in i..Len(H) : H[i].ts <= H[j].ts

\* the step broadcasts one message and that message alone becomes the last of R's history
C19_ChatStep(c) ==
    LET R == clients[c].room
    IN  /\ Len(out') = 1
        /\ out'[1].event = "message"
        /\ out'[1].data.username = clients[c].username
        /\ HistoryOf(rooms', R) = Append(HistoryOf(rooms, R), out'[1].data)
        /\ \A Q \in DOMAIN rooms' : Q # R => HistoryOf(rooms', Q) = HistoryOf(rooms, Q)

C19_NoLostOrReorderedAppend ==
    /\ [](\A R \in DOMAIN rooms : NonDecreasing(rooms[R].history))
    /\ [][\A c \in Conns :
            (last'.op = "chatMessage" /\ last'.conn = c /\ c \in DOMAIN clients)
                => C19_ChatStep(c)]_vars
    /\ [][last'.op # "chatMessage" =>
            \A R \in DOMAIN rooms : HistoryOf(rooms', R) = rooms[R].history]_vars

\* three messages of the two sockets interleaved, stamped at different times
C19_Witness ==
    /\ last.op = "chatMessage"
    /\ Len(GeneralHistory) = 3
    /\ GeneralHistory[1].username # GeneralHistory[2].username
    /\ GeneralHistory[2].username # GeneralHistory[3].username
    /\ GeneralHistory[1].ts < GeneralHistory[3].ts

(***************************************************************************)
(* C20: in every reachable state, for every connection c with a session    *)
(* (username u, room R), room R exists and R's roster maps c to u.  So     *)
(* privateMessage never replies 'Room not found' and chatMessage never     *)
(* creates a room.                                                         *)
(***************************************************************************)
RosterMaps(users, c, u) == \E i \in 1..Len(users) : users[i].key = c /\ users[i].value = u

C20_SessionInRoster ==
    \A c \in DOMAIN clients :
        /\ clients[c].room \in DOMAIN rooms
        /\ RosterMaps(rooms[clients[c].room].users, c, clients[c].username)

C20_NoRoomNotFound ==
    \A i \in 1..Len(out) :
        out[i].event = "system" => out[i].data.text # <<"Room not found">>

C20_SessionImpliesRosterEntry ==
    /\ [](C20_SessionInRoster /\ C20_NoRoomNotFound)
    /\ [][last'.op = "chatMessage" => DOMAIN rooms' = DOMAIN rooms]_vars

\* s2 chats as bob in Tech after having been alice in General
C20_Witness ==
    /\ last.op = "chatMessage"
    /\ last.conn = "s2"
    /\ "s2" \in DOMAIN clients
    /\ clients["s2"] = [username |-> Bob, room |-> Tech]
    /\ RosterMaps(RosterOf(rooms, General), "s2", Alice)
    /\ RosterMaps(RosterOf(rooms, Tech), "s2", Bob)
    /\ Len(HistoryOf(rooms, Tech)) = 1

====
